---------------------------- MODULE Spec2Model ----------------------------
(***************************************************************************)
(* A model of the AWS FinOps agent: backend/server.py (the FastAPI         *)
(* endpoints and the process-wide analyzer) and                            *)
(* backend/aws_costanalyzer.py (class AWSCostAnalyzer).                    *)
(*                                                                         *)
(* The module holds five specifications over disjoint groups of variables: *)
(*   Spec / FairSpec  the HTTP server: the global analyzer, the event      *)
(*                    loop and the handlers of server.py;                  *)
(*   SpecScan         identify_unused_resources, the recommendation rules  *)
(*                    and the optimization block of get_monthly_summary;   *)
(*   SpecCost         get_cost_and_usage, get_cost_by_service,             *)
(*                    get_daily_costs and the cost blocks of               *)
(*                    get_monthly_summary;                                 *)
(*   SpecForecast     forecast_costs and get_forecast_summary;             *)
(*   SpecReplay       the read-only endpoints called again and again over  *)
(*                    upstream data that is held fixed.                    *)
(* Money is fixed point: amounts are integers in mills (1/1000 USD), so    *)
(* sums are exact; round(x, 2) is the nearest cent, either neighbour at a  *)
(* decimal tie.                                                            *)
(***************************************************************************)
EXTENDS Integers, Sequences, FiniteSets, TLC

VARIABLES
    \* ---- server.py ----
    analyzer,        \* the global `analyzer`: 0 is None, n > 0 the n-th instance built
    made,            \* number of AWSCostAnalyzer instances constructed so far
    booted,          \* init_from_env() has run and uvicorn serves
    loop,            \* the request whose coroutine holds the event loop, 0 if none
    req,             \* per connection slot: the request and its handler's locals
    everConfigured,  \* history: some configure call or the bootstrap has succeeded
    \* ---- identify_unused_resources and what is derived from it ----
    scan_pc,         \* position in the scan and in its callers
    scan_cat,        \* the category being scanned, 1..4 (0 before the scan)
    unused,          \* the local `unused`: category key -> list of descriptors
    yielded,         \* entries the current listing has handed to its loop
    issued,          \* history: the listing calls issued, in order
    failedAt,        \* history: the category whose step raised, 0 if none
    recommendations, \* the list built by get_optimization_recommendations
    optimization,    \* the 'optimization' block of get_monthly_summary
    \* ---- the billing pipeline ----
    cost_pc,         \* position in the cost call
    billing,         \* upstream: the day rows Cost Explorer holds for the window
    fetched,         \* history: what each get_cost_and_usage call returned
    service_costs,   \* result of get_cost_by_service: ordered (service, total) pairs
    daily_costs,     \* result of get_daily_costs
    cost_body,       \* the rest of the answer: 'total', or the summary's cost blocks
    cost_status,     \* HTTP status the endpoint answers, 0 while running
    \* ---- the forecast ----
    fc_pc,           \* position in the forecast call
    days_forward,    \* the horizon argument
    forecast_data,   \* what forecast_costs returned
    forecast,        \* result of get_forecast_summary
    fc_status,       \* HTTP status of /api/forecast, 0 while running
    \* ---- repeated read-only calls ----
    upstream,        \* what the AWS APIs answer, when held fixed across calls
    running,         \* the read-only endpoint being served, "none" between calls
    last             \* history: per endpoint, the answer of its latest call

serverVars == <<analyzer, made, booted, loop, req, everConfigured>>

scanVars ==
    <<scan_pc, scan_cat, unused, yielded, issued, failedAt, recommendations, optimization>>

costVars ==
    <<cost_pc, billing, fetched, service_costs, daily_costs, cost_body, cost_status>>

fcVars == <<fc_pc, days_forward, forecast_data, forecast, fc_status>>

replayVars == <<upstream, running, last>>

vars == <<serverVars, scanVars, costVars, fcVars, replayVars>>

notServer == <<scanVars, costVars, fcVars, replayVars>>

notScan == <<serverVars, costVars, fcVars, replayVars>>

notCost == <<serverVars, scanVars, fcVars, replayVars>>

notForecast == <<serverVars, scanVars, costVars, replayVars>>

(***************************************************************************)
(* Text.  A Python str is a sequence of one-character strings.             *)
(***************************************************************************)
RECURSIVE Concat(_)
Concat(ss) == IF ss = <<>> THEN <<>> ELSE Head(ss) \o Concat(Tail(ss))

IsPrefixOf(p, s) == Len(p) <= Len(s) /\ SubSeq(s, 1, Len(p)) = p

\* `pat in s`
Contains(s, pat) ==
    \E i \in 1..(Len(s) - Len(pat) + 1) : SubSeq(s, i, i + Len(pat) - 1) = pat

\* s.replace(pat, ''): every occurrence of pat, left to right, is removed.
RECURSIVE Remove(_, _)
Remove(s, pat) ==
    IF s = <<>> THEN <<>>
    ELSE IF IsPrefixOf(pat, s)
         THEN Remove(SubSeq(s, Len(pat) + 1, Len(s)), pat)
         ELSE <<Head(s)>> \o Remove(Tail(s), pat)

DigitChars == <<"0", "1", "2", "3", "4", "5", "6", "7", "8", "9">>

DigitChar(d) == DigitChars[d + 1]

IsDigit(c) == \E d \in 0..9 : DigitChar(d) = c

DigitValue(c) == CHOOSE d \in 0..9 : DigitChar(d) = c

\* str(n) of an int n >= 0
RECURSIVE IntStr(_)
IntStr(n) == IF n < 10 THEN <<DigitChar(n)>> ELSE IntStr(n \div 10) \o <<DigitChar(n % 10)>>

\* The fraction digits of repr(float): trailing zeros dropped, one digit kept.
FractionStr(f) ==
    IF f % 100 = 0 THEN <<DigitChar(f \div 100)>>
    ELSE IF f % 10 = 0 THEN <<DigitChar(f \div 100), DigitChar((f \div 10) % 10)>>
    ELSE <<DigitChar(f \div 100), DigitChar((f \div 10) % 10), DigitChar(f % 10)>>

\* What an f-string prints for a float >= 0 (the value m is in mills):
\* 12000 -> "12.0", 14400 -> "14.4", 80 -> "0.08".
FloatStr(m) == IntStr(m \div 1000) \o <<".">> \o FractionStr(m % 1000)

RECURSIVE DigitsValue(_, _)
DigitsValue(s, acc) ==
    IF s = <<>> THEN acc ELSE DigitsValue(Tail(s), 10 * acc + DigitValue(Head(s)))

\* The first three fraction digits as mills: "4" -> 400, "08" -> 80.
FractionValue(s) ==
    LET d(i) == IF i <= Len(s) THEN DigitValue(s[i]) ELSE 0
    IN  100 * d(1) + 10 * d(2) + d(3)

IsNumberText(s) ==
    /\ s # <<>>
    /\ \A i \in 1..Len(s) : IsDigit(s[i]) \/ s[i] = "."
    /\ Cardinality({i \in 1..Len(s) : s[i] = "."}) <= 1
    /\ \E i \in 1..Len(s) : IsDigit(s[i])

\* float(s), in mills; -1 stands for ValueError (s is no number).
ParseFloat(s) ==
    IF ~IsNumberText(s) THEN -1
    ELSE LET dot == IF \E i \in 1..Len(s) : s[i] = "."
                    THEN CHOOSE i \in 1..Len(s) : s[i] = "."
                    ELSE Len(s) + 1
         IN  1000 * DigitsValue(SubSeq(s, 1, dot - 1), 0)
               + FractionValue(SubSeq(s, dot + 1, Len(s)))

TildeDollar == <<"~", "$">>

PerMonth == <<"/", "m", "o", "n", "t", "h">>

VariesByInstanceType ==
    <<"V", "a", "r", "i", "e", "s", " ", "b", "y", " ", "i", "n", "s", "t", "a", "n",
      "c", "e", " ", "t", "y", "p", "e">>

VariesByInstanceClass ==
    <<"V", "a", "r", "i", "e", "s", " ", "b", "y", " ", "i", "n", "s", "t", "a", "n",
      "c", "e", " ", "c", "l", "a", "s", "s">>

(***************************************************************************)
(* Numbers.  round(x, 2) of a value of num/den mills: the nearest cent, as *)
(* mills.  At an exact decimal tie the binary value of the float decides,  *)
(* so both neighbours are possible results.                                *)
(***************************************************************************)
Round2(num, den) ==
    LET q == num \div (10 * den)
        r == num % (10 * den)
    IN  IF 2 * r < 10 * den THEN {10 * q}
        ELSE IF 2 * r > 10 * den THEN {10 * (q + 1)}
        ELSE {10 * q, 10 * (q + 1)}

RECURSIVE SumSeq(_)
SumSeq(xs) == IF xs = <<>> THEN 0 ELSE Head(xs) + SumSeq(Tail(xs))

Take(xs, n) == SubSeq(xs, 1, IF Len(xs) < n THEN Len(xs) ELSE n)

Largest(S) == CHOOSE x \in S : \A y \in S : y <= x

Smallest(S) == CHOOSE x \in S : \A y \in S : x <= y

\* round(x, 2) is a function of x: where repeated calls are compared, every
\* tie is resolved the same way.
Round(num, den) ==
    IF upstream.pinned
    THEN {IF upstream.ties = "up" THEN Largest(Round2(num, den))
                                  ELSE Smallest(Round2(num, den))}
    ELSE Round2(num, den)

(***************************************************************************)
(* What the AWS APIs answer.  In the specifications of one call every      *)
(* answer is possible; where the upstream data is held fixed, each API     *)
(* answers every call alike.                                               *)
(***************************************************************************)
\* ce_client.get_cost_and_usage: returns ("ok") or raises ("error")
BillingOutcomes ==
    IF upstream.pinned THEN {upstream.billing} ELSE {"ok", "error"}

\* ce_client.get_cost_forecast
ForecastOutcomes ==
    IF upstream.pinned THEN {upstream.forecast} ELSE {"ok", "error"}

\* ec2_client.describe_* / rds_client.describe_db_instances of category c:
\* TRUE when the call returns
ListingOutcomes(c) ==
    IF upstream.pinned THEN {upstream.inventory[c].ok} ELSE BOOLEAN

\* The entry a listing hands to its loop after n entries, out of `pool`
ListedEntries(c, n, pool) ==
    IF upstream.pinned
    THEN IF n < Len(upstream.inventory[c].entries)
         THEN {upstream.inventory[c].entries[n + 1]}
         ELSE {}
    ELSE pool

\* The listing of category c has no entry after the first n
ListingExhausted(c, n) ==
    upstream.pinned => n = Len(upstream.inventory[c].entries)

(***************************************************************************)
(* Bounds of the server model.                                             *)
(***************************************************************************)
MaxSlots == 2
MaxAnalyzers == 2

Slots == 1..MaxSlots

None == 0

AnalysisKinds ==
    {"summary", "by-service", "daily", "forecast", "unused-resources", "recommendations"}

Kinds == AnalysisKinds \cup {"configure", "health"}

(***************************************************************************)
(* Upstream (boto3) calls one analysis handler makes.  The inventory scan  *)
(* issues between one and four listings (it stops at the first failure).   *)
(***************************************************************************)
MinCalls(kind) ==
    CASE kind = "summary" -> 4
      [] kind = "by-service" -> 1
      [] kind = "daily" -> 1
      [] kind = "forecast" -> 1
      [] kind = "unused-resources" -> 1
      [] kind = "recommendations" -> 1
      [] OTHER -> 0

MaxCalls(kind) ==
    CASE kind = "summary" -> 7
      [] kind = "by-service" -> 1
      [] kind = "daily" -> 1
      [] kind = "forecast" -> 1
      [] kind = "unused-resources" -> 4
      [] kind = "recommendations" -> 4
      [] OTHER -> 0

IdleRequest ==
    [kind |-> "none", pc |-> "idle", seen |-> -1, self |-> -1, calls |-> 0,
     used |-> {}, status |-> 0, configured |-> FALSE, cfgAtAnswer |-> FALSE,
     overlap |-> FALSE]

NewRequest(kind) == [IdleRequest EXCEPT !.kind = kind, !.pc = "pending"]

(***************************************************************************)
(* Scheduling.  Every handler is an `async def` without a single await, so *)
(* the one event loop of uvicorn.run runs it from its first statement to   *)
(* its return before it runs another coroutine.                            *)
(***************************************************************************)
MayRunThreaded(s) == TRUE

MayRun(s) == loop \in {0, s}

(***************************************************************************)
(* The value of the global after `analyzer = AWSCostAnalyzer(...)` inside  *)
(* try: the assignment happens only when the constructor returned.         *)
(***************************************************************************)
AssignResetOnFailure(ok, cur, new) == IF ok THEN new ELSE None

AssignAnalyzer(ok, cur, new) == IF ok THEN new ELSE cur

InitServer ==
    /\ analyzer = None
    /\ made = 0
    /\ booted = FALSE
    /\ loop = 0
    /\ req = [s \in Slots |-> IdleRequest]
    /\ everConfigured = FALSE

\* init_from_env(): runs once, before uvicorn.run.
InitFromEnv ==
    /\ UNCHANGED notServer
    /\ ~booted
    /\ booted' = TRUE
    /\ \E haveCreds \in BOOLEAN, ok \in BOOLEAN :
        IF haveCreds
        THEN /\ analyzer' = AssignAnalyzer(ok, analyzer, made + 1)
             /\ made' = IF ok THEN made + 1 ELSE made
             /\ everConfigured' = (everConfigured \/ ok)
        ELSE UNCHANGED <<analyzer, made, everConfigured>>
    /\ UNCHANGED <<loop, req>>

\* A client's request is accepted; its handler waits for the event loop.
Arrive(s, kind) ==
    /\ UNCHANGED notServer
    /\ booted
    /\ req[s].pc \in {"idle", "done"}
    /\ req' = [t \in Slots |->
                 IF t = s THEN NewRequest(kind)
                 ELSE IF /\ kind = "configure"
                         /\ req[t].pc \in {"bind", "call"}
                      THEN [req[t] EXCEPT !.overlap = TRUE]
                      ELSE req[t]]
    /\ UNCHANGED <<analyzer, made, booted, loop, everConfigured>>

\* configure_credentials: the whole handler.
Configure(s) ==
    /\ UNCHANGED notServer
    /\ req[s].kind = "configure"
    /\ req[s].pc = "pending"
    /\ MayRun(s)
    /\ \E ok \in BOOLEAN :
        /\ ok => made < MaxAnalyzers
        /\ analyzer' = AssignAnalyzer(ok, analyzer, made + 1)
        /\ made' = IF ok THEN made + 1 ELSE made
        /\ everConfigured' = (everConfigured \/ ok)
        /\ req' = [req EXCEPT ![s].pc = "done",
                              ![s].status = IF ok THEN 200 ELSE 400,
                              ![s].cfgAtAnswer = (everConfigured \/ ok)]
    /\ loop' = 0
    /\ UNCHANGED booted

\* health_check: the whole handler.
Health(s) ==
    /\ UNCHANGED notServer
    /\ req[s].kind = "health"
    /\ req[s].pc = "pending"
    /\ MayRun(s)
    /\ req' = [req EXCEPT ![s].pc = "done",
                          ![s].status = 200,
                          ![s].configured = (analyzer # None),
                          ![s].cfgAtAnswer = everConfigured]
    /\ loop' = 0
    /\ UNCHANGED <<analyzer, made, booted, everConfigured>>

\* `if not analyzer: raise HTTPException(status_code=400, ...)`
CheckConfigured(s) ==
    /\ UNCHANGED notServer
    /\ req[s].kind \in AnalysisKinds
    /\ req[s].pc = "pending"
    /\ MayRun(s)
    /\ IF analyzer = None
       THEN /\ req' = [req EXCEPT ![s].pc = "done", ![s].seen = analyzer,
                                  ![s].status = 400,
                                  ![s].cfgAtAnswer = everConfigured]
            /\ loop' = 0
       ELSE /\ req' = [req EXCEPT ![s].pc = "bind", ![s].seen = analyzer]
            /\ loop' = s
    /\ UNCHANGED <<analyzer, made, booted, everConfigured>>

\* `analyzer.get_...(...)`: the global is read again and bound as self.
BindAnalyzer(s) ==
    /\ UNCHANGED notServer
    /\ req[s].pc = "bind"
    /\ MayRun(s)
    /\ IF analyzer = None
       THEN /\ req' = [req EXCEPT ![s].pc = "done", ![s].status = 500,
                                  ![s].cfgAtAnswer = everConfigured]
            /\ loop' = 0
       ELSE /\ req' = [req EXCEPT ![s].pc = "call", ![s].self = analyzer]
            /\ loop' = s
    /\ UNCHANGED <<analyzer, made, booted, everConfigured>>

\* One boto3 call of the bound analyzer's clients (self.ce_client, ...).
UpstreamCall(s) ==
    /\ UNCHANGED notServer
    /\ req[s].pc = "call"
    /\ MayRun(s)
    /\ req[s].calls < MaxCalls(req[s].kind)
    /\ req' = [req EXCEPT ![s].calls = @ + 1, ![s].used = @ \cup {req[s].self}]
    /\ loop' = s
    /\ UNCHANGED <<analyzer, made, booted, everConfigured>>

\* The handler returns its result, or answers 500 when the method raised
\* (get_forecast_summary divides by the horizon).
Respond(s) ==
    /\ UNCHANGED notServer
    /\ req[s].pc = "call"
    /\ MayRun(s)
    /\ req[s].calls >= MinCalls(req[s].kind)
    /\ \E st \in (IF req[s].kind = "forecast" THEN {200, 500} ELSE {200}) :
        req' = [req EXCEPT ![s].pc = "done", ![s].status = st,
                           ![s].cfgAtAnswer = everConfigured]
    /\ loop' = 0
    /\ UNCHANGED <<analyzer, made, booted, everConfigured>>

NextServer ==
    \/ InitFromEnv
    \/ \E s \in Slots, kind \in Kinds : Arrive(s, kind)
    \/ \E s \in Slots : Configure(s)
    \/ \E s \in Slots : Health(s)
    \/ \E s \in Slots : CheckConfigured(s)
    \/ \E s \in Slots : BindAnalyzer(s)
    \/ \E s \in Slots : UpstreamCall(s)
    \/ \E s \in Slots : Respond(s)

\* A step of the event loop: any handler step.
LoopStep ==
    \E s \in Slots :
        \/ Configure(s) \/ Health(s) \/ CheckConfigured(s)
        \/ BindAnalyzer(s) \/ UpstreamCall(s) \/ Respond(s)

(***************************************************************************)
(* identify_unused_resources.  The four listings run in one try block, in  *)
(* the order of Categories.  A listing's entries are revealed one at a time *)
(* as its loop consumes them (the EC2 reservations are iterated flattened). *)
(* A descriptor keeps the fields that later code reads.                    *)
(***************************************************************************)
MaxInstances == 3
MaxVolumes == 2
MaxAddresses == 4
MaxDBs == 1

Categories == <<"ec2_instances", "ebs_volumes", "elastic_ips", "rds_instances">>

Listings ==
    <<"describe_instances", "describe_volumes", "describe_addresses",
      "describe_db_instances">>

NCategories == Len(Categories)

\* What a listing can hand to its loop.  ok = FALSE: the entry lacks a key
\* the loop body reads, which raises KeyError.
Entries(c) ==
    CASE c = 1 -> [id : {"i-1", "i-2"}, ok : BOOLEAN]
      [] c = 2 -> {[id |-> v[1], size |-> v[2], ok |-> b] :
                      v \in {<<"vol-1", 100>>, <<"vol-2", 50>>, <<"vol-3", 1>>},
                      b \in BOOLEAN}
      [] c = 3 -> [ip : {"52.0.0.1"}, associated : BOOLEAN, ok : BOOLEAN]
      [] c = 4 -> [id : {"db-1"}, status : {"stopped", "available"}, ok : BOOLEAN]

MaxEntries(c) ==
    CASE c = 1 -> MaxInstances
      [] c = 2 -> MaxVolumes
      [] c = 3 -> MaxAddresses
      [] c = 4 -> MaxDBs

\* The client-side filters: `'AssociationId' not in address`,
\* `db['DBInstanceStatus'] == 'stopped'` (EC2 and EBS filter in the request).
Keep(c, e) ==
    CASE c = 3 -> ~e.associated
      [] c = 4 -> e.status = "stopped"
      [] OTHER -> TRUE

\* The keys are read only for an entry that passes the filter.
Raises(c, e) == Keep(c, e) /\ ~e.ok

Descriptor(c, e) ==
    CASE c = 1 -> [id |-> e.id]
      [] c = 2 -> [id |-> e.id, size |-> e.size]
      [] c = 3 -> [ip |-> e.ip]
      [] c = 4 -> [id |-> e.id]

EmptyUnused == [k \in {Categories[c] : c \in 1..NCategories} |-> <<>>]

\* Where control goes when a step of category c raises: the except clause
\* ends the try block, and the function returns `unused`.
OnExceptionNextCategory(c) ==
    IF c < NCategories THEN [pc |-> "list", cat |-> c + 1]
    ELSE [pc |-> "returned", cat |-> c]

OnException(c) == [pc |-> "returned", cat |-> c]

\* After the loop of category c: the next listing, or `return unused`.
AfterLoop(c) ==
    IF c < NCategories THEN [pc |-> "list", cat |-> c + 1]
    ELSE [pc |-> "returned", cat |-> c]

NoOptimization ==
    [total_recommendations |-> 0, potential_monthly_savings |-> 0, raised |-> FALSE]

ParkedCost ==
    /\ cost_pc = "idle"
    /\ billing = <<>>
    /\ fetched = <<>>
    /\ service_costs = <<>>
    /\ daily_costs = <<>>
    /\ cost_body = <<>>
    /\ cost_status = 0

ParkedForecast ==
    /\ fc_pc = "idle"
    /\ days_forward = 0
    /\ forecast_data = <<>>
    /\ forecast = <<>>
    /\ fc_status = 0

\* The endpoints that only read
ReadOnlyKinds == AnalysisKinds \cup {"health"}

\* No upstream answer is held fixed.
Varying == [pinned |-> FALSE]

NoAnswer == [status |-> 0]

ParkedReplay ==
    /\ upstream = Varying
    /\ running = "none"
    /\ last = [e \in ReadOnlyKinds |-> NoAnswer]

ParkedScan ==
    /\ scan_pc = "idle"
    /\ scan_cat = 0
    /\ unused = EmptyUnused
    /\ yielded = 0
    /\ issued = <<>>
    /\ failedAt = 0
    /\ recommendations = <<>>
    /\ optimization = NoOptimization

\* `unused = {'ec2_instances': [], ...}` and entry into the try block.
StartScan ==
    /\ UNCHANGED notScan
    /\ scan_pc = "idle"
    /\ scan_pc' = "list"
    /\ scan_cat' = 1
    /\ unused' = EmptyUnused
    /\ UNCHANGED <<yielded, issued, failedAt, recommendations, optimization>>

\* The listing call of category c: it returns a response or raises.
List(c) ==
    /\ UNCHANGED notScan
    /\ scan_pc = "list"
    /\ scan_cat = c
    /\ issued' = Append(issued, Listings[c])
    /\ yielded' = 0
    /\ \E ok \in ListingOutcomes(c) :
        IF ok
        THEN /\ scan_pc' = "loop"
             /\ UNCHANGED <<scan_cat, failedAt>>
        ELSE /\ scan_pc' = OnException(c).pc
             /\ scan_cat' = OnException(c).cat
             /\ failedAt' = c
    /\ UNCHANGED <<unused, recommendations, optimization>>

\* One iteration of the loop over the listing of category c.
LoopEntry(c) ==
    /\ UNCHANGED notScan
    /\ scan_pc = "loop"
    /\ scan_cat = c
    /\ yielded < MaxEntries(c)
    /\ yielded' = yielded + 1
    /\ \E e \in ListedEntries(c, yielded, Entries(c)) :
        IF Raises(c, e)
        THEN /\ scan_pc' = OnException(c).pc
             /\ scan_cat' = OnException(c).cat
             /\ failedAt' = c
             /\ UNCHANGED unused
        ELSE /\ unused' = IF Keep(c, e)
                          THEN [unused EXCEPT ![Categories[c]] = Append(@, Descriptor(c, e))]
                          ELSE unused
             /\ UNCHANGED <<scan_pc, scan_cat, failedAt>>
    /\ UNCHANGED <<issued, recommendations, optimization>>

\* The listing of category c has no further entry.
LoopEnd(c) ==
    /\ UNCHANGED notScan
    /\ scan_pc = "loop"
    /\ scan_cat = c
    /\ ListingExhausted(c, yielded)
    /\ scan_pc' = AfterLoop(c).pc
    /\ scan_cat' = AfterLoop(c).cat
    /\ UNCHANGED <<unused, yielded, issued, failedAt, recommendations, optimization>>

(***************************************************************************)
(* get_optimization_recommendations: four independent `if` blocks.         *)
(***************************************************************************)
EbsRate == 80

EipRate == 3600

Ids(ds) == [i \in 1..Len(ds) |-> ds[i].id]

Ips(ds) == [i \in 1..Len(ds) |-> ds[i].ip]

Sizes(ds) == [i \in 1..Len(ds) |-> ds[i].size]

\* round(total_size * 0.08, 2), in mills
EbsSavingsPerVolume(vols) == CHOOSE x \in Round2(Len(vols) * EbsRate, 1) : TRUE

EbsSavings(vols) == CHOOSE x \in Round2(SumSeq(Sizes(vols)) * EbsRate, 1) : TRUE

\* round(total_ips * 3.60, 2), in mills
EipSavings(ips) == CHOOSE x \in Round2(Len(ips) * EipRate, 1) : TRUE

\* f'~${estimated_savings}/month'
SavingsText(m) == TildeDollar \o FloatStr(m) \o PerMonth

RecEC2(u) ==
    IF u.ec2_instances # <<>>
    THEN <<[category |-> "EC2", severity |-> "HIGH",
            potential_savings |-> VariesByInstanceType,
            resources |-> Ids(u.ec2_instances)]>>
    ELSE <<>>

RecEBS(u) ==
    IF u.ebs_volumes # <<>>
    THEN <<[category |-> "EBS", severity |-> "MEDIUM",
            potential_savings |-> SavingsText(EbsSavings(u.ebs_volumes)),
            resources |-> Ids(u.ebs_volumes)]>>
    ELSE <<>>

RecNetwork(u) ==
    IF u.elastic_ips # <<>>
    THEN <<[category |-> "Network", severity |-> "LOW",
            potential_savings |-> SavingsText(EipSavings(u.elastic_ips)),
            resources |-> Ips(u.elastic_ips)]>>
    ELSE <<>>

RecRDS(u) ==
    IF u.rds_instances # <<>>
    THEN <<[category |-> "RDS", severity |-> "HIGH",
            potential_savings |-> VariesByInstanceClass,
            resources |-> Ids(u.rds_instances)]>>
    ELSE <<>>

BuildBySeverity(u) == RecEC2(u) \o RecRDS(u) \o RecEBS(u) \o RecNetwork(u)

BuildRecommendations(u) == RecEC2(u) \o RecEBS(u) \o RecNetwork(u) \o RecRDS(u)

\* get_optimization_recommendations, after its call of the scan returned.
Recommend ==
    /\ UNCHANGED notScan
    /\ scan_pc = "returned"
    /\ recommendations' = BuildRecommendations(unused)
    /\ scan_pc' = "recommended"
    /\ UNCHANGED <<scan_cat, unused, yielded, issued, failedAt, optimization>>

(***************************************************************************)
(* get_monthly_summary, the optimization block: the savings texts that     *)
(* contain '/month' are parsed back to numbers and summed.                 *)
(***************************************************************************)
CountsEveryText(text) == TRUE

CountsTowardsSavings(text) == Contains(text, PerMonth)

\* float(text.replace('~$', '').replace('/month', ''))
SavingsAmount(text) == ParseFloat(Remove(Remove(text, TildeDollar), PerMonth))

CountedAmounts(recs) ==
    LET idx == {i \in 1..Len(recs) : CountsTowardsSavings(recs[i].potential_savings)}
    IN  [i \in idx |-> SavingsAmount(recs[i].potential_savings)]

RECURSIVE SumOver(_, _)
SumOver(f, S) ==
    IF S = {} THEN 0
    ELSE LET i == CHOOSE j \in S : TRUE IN f[i] + SumOver(f, S \ {i})

Summarize ==
    /\ UNCHANGED notScan
    /\ scan_pc = "recommended"
    /\ scan_pc' = "summarized"
    /\ LET amounts == CountedAmounts(recommendations)
       IN  IF \E i \in DOMAIN amounts : amounts[i] < 0
           THEN optimization' = [NoOptimization EXCEPT !.raised = TRUE]
           ELSE \E total \in Round(SumOver(amounts, DOMAIN amounts), 1) :
                   optimization' =
                       [total_recommendations |-> Len(recommendations),
                        potential_monthly_savings |-> total,
                        raised |-> FALSE]
    /\ UNCHANGED <<scan_cat, unused, yielded, issued, failedAt, recommendations>>

NextScan ==
    \/ StartScan
    \/ \E c \in 1..NCategories : List(c)
    \/ \E c \in 1..NCategories : LoopEntry(c)
    \/ \E c \in 1..NCategories : LoopEnd(c)
    \/ Recommend
    \/ Summarize

InitScan == InitServer /\ ParkedScan /\ ParkedCost /\ ParkedForecast /\ ParkedReplay

SpecScan == InitScan /\ [][NextScan]_vars

(***************************************************************************)
(* The billing pipeline.  `billing` is what Cost Explorer holds for the    *)
(* window: a sequence of day rows, each a sequence of groups               *)
(* <<service, amount in mills>>.  A get_cost_and_usage call returns it or  *)
(* raises; the data does not change within one request.                    *)
(***************************************************************************)
MaxRows == 2
MaxGroups == 2

GroupPool == {<<"EC2", 2000>>, <<"S3", 1005>>, <<"s3", 1005>>}

RECURSIVE SeqsUpTo(_, _)
SeqsUpTo(S, n) ==
    IF n = 0 THEN {<<>>}
    ELSE LET shorter == SeqsUpTo(S, n - 1)
         IN  shorter \cup {Append(q, x) : q \in {r \in shorter : Len(r) = n - 1}, x \in S}

\* Two days with many services: a credit (negative amount), and Lambda's
\* two days adding up to the total of RDS.
WideRows ==
    {<<<<"RDS", 4000>>, <<"Lambda", 1250>>, <<"VPC", -500>>, <<"EC2", 1000>>>>,
     <<<<"CloudWatch", 1250>>, <<"Lambda", 2750>>, <<"S3", 995>>>>}

DayRows == SeqsUpTo(GroupPool, MaxGroups) \cup WideRows

BillingResponses == SeqsUpTo(DayRows, MaxRows)

TopN == 5

TrendDays == 7

AvgDivisor == 30

\* get_cost_and_usage: the response, or {} when the call raised.
GetCostAndUsagePropagates(outcome, data) ==
    IF outcome = "error" THEN [exc |-> TRUE, has |-> FALSE, rows |-> <<>>]
    ELSE [exc |-> FALSE, has |-> TRUE, rows |-> data]

GetCostAndUsage(outcome, data) ==
    IF outcome = "error" THEN [exc |-> FALSE, has |-> FALSE, rows |-> <<>>]
    ELSE [exc |-> FALSE, has |-> TRUE, rows |-> data]

\* The groups of all day rows, in response order.
Flatten(rows) == Concat(rows)

HasKey(d, k) == \E i \in 1..Len(d) : d[i][1] = k

\* service_costs[service] = service_costs.get(service, 0) + cost
\* (a dict keeps its keys in insertion order)
AccumulateOverwrite(d, service, cost) ==
    IF HasKey(d, service)
    THEN [i \in 1..Len(d) |-> IF d[i][1] = service THEN <<service, cost>> ELSE d[i]]
    ELSE Append(d, <<service, cost>>)

Accumulate(d, service, cost) ==
    IF HasKey(d, service)
    THEN [i \in 1..Len(d) |-> IF d[i][1] = service THEN <<service, d[i][2] + cost>> ELSE d[i]]
    ELSE Append(d, <<service, cost>>)

RECURSIVE AccumulateAll(_, _)
AccumulateAll(d, groups) ==
    IF groups = <<>> THEN d
    ELSE AccumulateAll(Accumulate(d, Head(groups)[1], Head(groups)[2]), Tail(groups))

\* sorted(..., key=lambda x: x[1], reverse=True) is stable: an item goes
\* behind every item whose total is at least its own.
InsertBeforeEqual(sorted, x) ==
    LET n == Cardinality({i \in 1..Len(sorted) : sorted[i][2] > x[2]})
    IN  SubSeq(sorted, 1, n) \o <<x>> \o SubSeq(sorted, n + 1, Len(sorted))

InsertSorted(sorted, x) ==
    LET n == Cardinality({i \in 1..Len(sorted) : sorted[i][2] >= x[2]})
    IN  SubSeq(sorted, 1, n) \o <<x>> \o SubSeq(sorted, n + 1, Len(sorted))

RECURSIVE SortDescending(_, _)
SortDescending(sorted, items) ==
    IF items = <<>> THEN sorted
    ELSE SortDescending(InsertSorted(sorted, Head(items)), Tail(items))

Values(d) == [i \in 1..Len(d) |-> d[i][2]]

\* get_cost_by_service, given what get_cost_and_usage returned
CostByServiceCarriedOver(data) ==
    LET kept == IF last["by-service"].status = 200
                THEN last["by-service"].body.services
                ELSE <<>>
    IN  SortDescending(<<>>, IF data.has
                             THEN AccumulateAll(kept, Flatten(data.rows))
                             ELSE kept)

CostByService(data) ==
    SortDescending(<<>>, IF data.has THEN AccumulateAll(<<>>, Flatten(data.rows)) ELSE <<>>)

Amounts(groups) == [i \in 1..Len(groups) |-> groups[i][2]]

\* get_daily_costs: the possible results (round(total_cost, 2) per day row;
\* the date is the row's position in the window)
RECURSIVE DailyCosts(_, _)
DailyCosts(rows, first) ==
    IF rows = <<>> THEN {<<>>}
    ELSE {<<[date |-> first, cost |-> c]>> \o rest :
             c \in Round(SumSeq(Amounts(Head(rows))), 1),
             rest \in DailyCosts(Tail(rows), first + 1)}

DailyCostsOf(data) == IF data.has THEN DailyCosts(data.rows, 1) ELSE {<<>>}

LastN(xs, n) == SubSeq(xs, IF Len(xs) > n THEN Len(xs) - n + 1 ELSE 1, Len(xs))

InitCost ==
    /\ InitServer /\ ParkedScan /\ ParkedForecast /\ ParkedReplay
    /\ cost_pc = "idle"
    /\ billing \in BillingResponses
    /\ fetched = <<>>
    /\ service_costs = <<>>
    /\ daily_costs = <<>>
    /\ cost_body = <<>>
    /\ cost_status = 0

\* GET /api/costs/by-service
CostsByService ==
    /\ UNCHANGED notCost
    /\ cost_pc = "idle"
    /\ cost_pc' = "by-service"
    /\ \E outcome \in BillingOutcomes :
        LET data == GetCostAndUsage(outcome, billing)
        IN  /\ fetched' = <<data>>
            /\ IF data.exc
               THEN /\ cost_status' = 500
                    /\ UNCHANGED <<service_costs, cost_body>>
               ELSE /\ cost_status' = 200
                    /\ service_costs' = CostByService(data)
                    /\ cost_body' = [total |-> SumSeq(Values(CostByService(data)))]
    /\ UNCHANGED <<billing, daily_costs>>

\* GET /api/costs/daily
DailyCostsEndpoint ==
    /\ UNCHANGED notCost
    /\ cost_pc = "idle"
    /\ cost_pc' = "daily"
    /\ \E outcome \in BillingOutcomes :
        LET data == GetCostAndUsage(outcome, billing)
        IN  /\ fetched' = <<data>>
            /\ IF data.exc
               THEN /\ cost_status' = 500
                    /\ UNCHANGED daily_costs
               ELSE /\ cost_status' = 200
                    /\ daily_costs' \in DailyCostsOf(data)
    /\ UNCHANGED <<billing, service_costs, cost_body>>

\* avg_daily = total_current / 30 if len(daily_costs) > 0 else 0, reported
\* as round(avg_daily, 2): the possible results.
AvgDailyOverRows(total_current, daily) ==
    IF Len(daily) > 0 THEN Round(total_current, Len(daily)) ELSE {0}

AvgDaily(total_current, daily) ==
    IF Len(daily) > 0 THEN Round(total_current, AvgDivisor) ELSE {0}

\* GET /api/costs/summary: the cost blocks of get_monthly_summary (two
\* separate fetches: the service totals, then the daily trend).
MonthlySummary ==
    /\ UNCHANGED notCost
    /\ cost_pc = "idle"
    /\ cost_pc' = "summary"
    /\ \E o1 \in BillingOutcomes, o2 \in BillingOutcomes :
        LET d1 == GetCostAndUsage(o1, billing)
            d2 == GetCostAndUsage(o2, billing)
            current_month_costs == CostByService(d1)
            total_current == SumSeq(Values(current_month_costs))
        IN  /\ fetched' = <<d1, d2>>
            /\ IF d1.exc \/ d2.exc
               THEN /\ cost_status' = 500
                    /\ UNCHANGED <<service_costs, daily_costs, cost_body>>
               ELSE /\ cost_status' = 200
                    /\ service_costs' = current_month_costs
                    /\ \E daily \in DailyCostsOf(d2) :
                        /\ daily_costs' = daily
                        /\ \E total \in Round(total_current, 1),
                              avg \in AvgDaily(total_current, daily) :
                            cost_body' =
                                [total_cost |-> total,
                                 avg_daily_cost |-> avg,
                                 top_services |-> Take(current_month_costs, TopN),
                                 daily_trend |-> LastN(daily, TrendDays)]
    /\ UNCHANGED billing

NextCost ==
    \/ CostsByService
    \/ DailyCostsEndpoint
    \/ MonthlySummary

SpecCost == InitCost /\ [][NextCost]_vars

(***************************************************************************)
(* The forecast.  A get_cost_forecast response holds one MeanValue (mills) *)
(* per forecast row; the call may raise instead.                           *)
(***************************************************************************)
MaxForecastRows == 3

MeanValues == {0, 1005, 2500}

ForecastResponses == SeqsUpTo(MeanValues, MaxForecastRows)

\* The `days` query values tried; get_monthly_summary always passes 30.
Horizons == {0, 1, 7, 30}

SummaryHorizon == 30

\* The rows ce_client.get_cost_forecast holds
ForecastRows ==
    IF upstream.pinned THEN {upstream.forecast_rows} ELSE ForecastResponses

\* The `days` query value of a GET /api/forecast
RequestedHorizons ==
    IF upstream.pinned THEN {upstream.days} ELSE Horizons

\* forecast_costs: the response, or {} when the call raised.
ForecastCosts(outcome, rows) ==
    IF outcome = "error" THEN [has |-> FALSE, rows |-> <<>>]
    ELSE [has |-> TRUE, rows |-> rows]

EmptyResult == [kind |-> "empty"]

ZeroDivision == [kind |-> "ZeroDivisionError"]

\* get_forecast_summary, given what forecast_costs returned: the possible
\* results.  Only the absence of the key 'ForecastResultsByTime' gives {}.
ForecastSummariesGuarded(data, days) ==
    IF ~data.has THEN {EmptyResult}
    ELSE {[kind |-> "summary", total_forecast |-> t, days |-> days, daily_average |-> a] :
             t \in Round(SumSeq(data.rows), 1),
             a \in (IF days = 0 THEN {0} ELSE Round(SumSeq(data.rows), days))}

ForecastSummaries(data, days) ==
    IF ~data.has THEN {EmptyResult}
    ELSE IF days = 0 THEN {ZeroDivision}
    ELSE {[kind |-> "summary", total_forecast |-> t, days |-> days, daily_average |-> a] :
             t \in Round(SumSeq(data.rows), 1),
             a \in Round(SumSeq(data.rows), days)}

\* get_forecast_summary(days) with its forecast_costs call
ForecastCall(days, status) ==
    /\ UNCHANGED notForecast
    /\ fc_pc = "idle"
    /\ days_forward' = days
    /\ \E outcome \in ForecastOutcomes, rows \in ForecastRows :
        /\ outcome = "error" => rows = <<>>
        /\ forecast_data' = ForecastCosts(outcome, rows)
        /\ \E result \in ForecastSummaries(ForecastCosts(outcome, rows), days) :
            /\ forecast' = result
            /\ fc_status' = IF result = ZeroDivision THEN 500 ELSE status

\* GET /api/forecast?days=...
GetForecast ==
    /\ \E days \in RequestedHorizons : ForecastCall(days, 200)
    /\ fc_pc' = "forecast"

\* get_monthly_summary: `forecast = self.get_forecast_summary(30)`
SummaryForecast ==
    /\ ForecastCall(SummaryHorizon, 200)
    /\ fc_pc' = "summary"

NextForecast ==
    \/ GetForecast
    \/ SummaryForecast

InitForecast == InitServer /\ ParkedScan /\ ParkedCost /\ ParkedForecast /\ ParkedReplay

SpecForecast == InitForecast /\ [][NextForecast]_vars

(***************************************************************************)
(* Repeated read-only calls.  The AWS side is held fixed (`upstream`): the *)
(* billing rows, the forecast rows, the inventory, which of the API calls  *)
(* raise, and the `days` value the client sends.  The read-only endpoints  *)
(* are then called one after another, any number of times in any order;    *)
(* a handler's locals are created when it is called and are gone when it   *)
(* has answered.  No configure call takes place.                           *)
(***************************************************************************)
ReplayInventory ==
    <<[ok |-> TRUE,
       entries |-> <<[id |-> "i-1", ok |-> TRUE], [id |-> "i-2", ok |-> TRUE]>>],
      [ok |-> TRUE,
       entries |-> <<[id |-> "vol-1", size |-> 100, ok |-> TRUE],
                     [id |-> "vol-3", size |-> 1, ok |-> TRUE]>>],
      [ok |-> TRUE,
       entries |-> <<[ip |-> "52.0.0.1", associated |-> TRUE, ok |-> TRUE],
                     [ip |-> "52.0.0.1", associated |-> FALSE, ok |-> TRUE]>>],
      [ok |-> TRUE,
       entries |-> <<[id |-> "db-1", status |-> "stopped", ok |-> TRUE]>>]>>

\* Other inventories: the volume listing raises; an address entry lacks
\* its key; nothing is listed at all.
ReplayInventories ==
    {[ReplayInventory EXCEPT ![2] = [ok |-> FALSE, entries |-> <<>>]],
     [ReplayInventory EXCEPT ![3].entries =
         <<[ip |-> "52.0.0.1", associated |-> FALSE, ok |-> FALSE]>>],
     [c \in 1..NCategories |-> [ok |-> TRUE, entries |-> <<>>]]}

ReplayUpstream ==
    [pinned |-> TRUE,
     configured |-> TRUE,
     ties |-> "up",
     billing |-> "ok",
     rows |-> <<<<<<"EC2", 2000>>, <<"S3", 1005>>>>,
                <<<<"S3", 995>>, <<"EC2", 1000>>>>>>,
     forecast |-> "ok",
     forecast_rows |-> <<1005, 2500>>,
     days |-> SummaryHorizon,
     inventory |-> ReplayInventory]

\* The fixed upstream states tried: ReplayUpstream, and each way of changing
\* one part of it.
Upstreams ==
    {ReplayUpstream,
     [ReplayUpstream EXCEPT !.configured = FALSE],
     [ReplayUpstream EXCEPT !.ties = "down"],
     [ReplayUpstream EXCEPT !.billing = "error"],
     [ReplayUpstream EXCEPT !.forecast = "error"],
     [ReplayUpstream EXCEPT !.forecast_rows = <<>>]}
    \cup {[ReplayUpstream EXCEPT !.rows = r] : r \in {<<>>} \cup {<<w>> : w \in WideRows}}
    \cup {[ReplayUpstream EXCEPT !.days = d] : d \in Horizons}
    \cup {[ReplayUpstream EXCEPT !.inventory = i] : i \in ReplayInventories}

InitReplay ==
    /\ upstream \in Upstreams
    /\ running = "none"
    /\ last = [e \in ReadOnlyKinds |-> NoAnswer]
    /\ analyzer = (IF upstream.configured THEN 1 ELSE None)
    /\ made = (IF upstream.configured THEN 1 ELSE 0)
    /\ booted = TRUE
    /\ loop = 0
    /\ req = [s \in Slots |-> IdleRequest]
    /\ everConfigured = upstream.configured
    /\ ParkedScan /\ ParkedForecast
    /\ cost_pc = "idle"
    /\ billing = upstream.rows
    /\ fetched = <<>>
    /\ service_costs = <<>>
    /\ daily_costs = <<>>
    /\ cost_body = <<>>
    /\ cost_status = 0

\* The handlers whose method runs the inventory scan
ScanKinds == {"unused-resources", "recommendations", "summary"}

\* A read-only request is accepted and its handler starts.
Begin(e) ==
    /\ running = "none"
    /\ running' = e
    /\ UNCHANGED <<serverVars, scanVars, costVars, fcVars, upstream, last>>

\* `if not analyzer: raise HTTPException(status_code=400, ...)` was passed
Serving(e) == running = e /\ e # "health" /\ analyzer # None

ServeByService == Serving("by-service") /\ CostsByService

ServeDaily == Serving("daily") /\ DailyCostsEndpoint

ServeForecast == Serving("forecast") /\ GetForecast

\* get_monthly_summary, in the order of its calls: the two cost fetches,
\* the forecast, the recommendations (which run the scan), the savings sum.
ServeSummaryCosts == Serving("summary") /\ MonthlySummary

ServeSummaryForecast == Serving("summary") /\ cost_pc = "summary" /\ SummaryForecast

ServeStartScan ==
    /\ \E e \in ScanKinds : Serving(e)
    /\ Serving("summary") => fc_pc = "summary"
    /\ StartScan

ServeRecommend ==
    /\ Serving("recommendations") \/ Serving("summary")
    /\ Recommend

ServeSummarize == Serving("summary") /\ Summarize

\* The handler of e has reached its return (or raised its HTTPException).
Served(e) ==
    \/ e = "health"
    \/ analyzer = None
    \/ e = "by-service" /\ cost_pc = "by-service"
    \/ e = "daily" /\ cost_pc = "daily"
    \/ e = "forecast" /\ fc_pc = "forecast"
    \/ e = "unused-resources" /\ scan_pc = "returned"
    \/ e = "recommendations" /\ scan_pc = "recommended"
    \/ e = "summary" /\ scan_pc = "summarized"

\* The HTTP answer of the handler of e: status and JSON body.
Answer(e) ==
    IF e = "health"
    THEN [status |-> 200, body |-> [configured |-> analyzer # None]]
    ELSE IF analyzer = None THEN [status |-> 400, body |-> <<>>]
    ELSE
      CASE e = "by-service" ->
             IF cost_status = 200
             THEN [status |-> 200,
                   body |-> [services |-> service_costs, total |-> cost_body.total]]
             ELSE [status |-> cost_status, body |-> <<>>]
        [] e = "daily" ->
             IF cost_status = 200
             THEN [status |-> 200, body |-> [daily_costs |-> daily_costs]]
             ELSE [status |-> cost_status, body |-> <<>>]
        [] e = "forecast" ->
             IF fc_status = 200
             THEN [status |-> 200, body |-> forecast]
             ELSE [status |-> fc_status, body |-> <<>>]
        [] e = "unused-resources" -> [status |-> 200, body |-> unused]
        [] e = "recommendations" ->
             [status |-> 200,
              body |-> [recommendations |-> recommendations,
                        count |-> Len(recommendations)]]
        [] e = "summary" ->
             IF cost_status = 200 /\ fc_status = 200 /\ ~optimization.raised
             THEN [status |-> 200,
                   body |-> [current_month |->
                                [total_cost |-> cost_body.total_cost,
                                 avg_daily_cost |-> cost_body.avg_daily_cost,
                                 top_services |-> cost_body.top_services],
                             forecast |-> forecast,
                             optimization |->
                                [total_recommendations |->
                                     optimization.total_recommendations,
                                 potential_monthly_savings |->
                                     optimization.potential_monthly_savings,
                                 recommendations |-> recommendations],
                             daily_trend |-> cost_body.daily_trend]]
             ELSE [status |-> 500, body |-> <<>>]

\* The handler answers; its frame, with every local, is released.
Finish(e) ==
    /\ running = e
    /\ Served(e)
    /\ last' = [last EXCEPT ![e] = Answer(e)]
    /\ running' = "none"
    /\ scan_pc' = "idle"
    /\ scan_cat' = 0
    /\ unused' = EmptyUnused
    /\ yielded' = 0
    /\ issued' = <<>>
    /\ failedAt' = 0
    /\ recommendations' = <<>>
    /\ optimization' = NoOptimization
    /\ cost_pc' = "idle"
    /\ fetched' = <<>>
    /\ service_costs' = <<>>
    /\ daily_costs' = <<>>
    /\ cost_body' = <<>>
    /\ cost_status' = 0
    /\ fc_pc' = "idle"
    /\ days_forward' = 0
    /\ forecast_data' = <<>>
    /\ forecast' = <<>>
    /\ fc_status' = 0
    /\ UNCHANGED <<serverVars, billing, upstream>>

NextReplay ==
    \/ \E e \in ReadOnlyKinds : Begin(e)
    \/ ServeByService
    \/ ServeDaily
    \/ ServeForecast
    \/ ServeSummaryCosts
    \/ ServeSummaryForecast
    \/ ServeStartScan
    \/ \E c \in 1..NCategories : List(c)
    \/ \E c \in 1..NCategories : LoopEntry(c)
    \/ \E c \in 1..NCategories : LoopEnd(c)
    \/ ServeRecommend
    \/ ServeSummarize
    \/ \E e \in ReadOnlyKinds : Finish(e)

SpecReplay == InitReplay /\ [][NextReplay]_vars

Init == InitServer /\ ParkedScan /\ ParkedCost /\ ParkedForecast /\ ParkedReplay

Next == NextServer

Spec == Init /\ [][Next]_vars

\* The event loop runs every coroutine it has been handed.
FairSpec == Spec /\ WF_vars(LoopStep)


(***************************************************************************)
(* Claims about the server.                                                *)
(***************************************************************************)

Answered(s) == req[s].pc = "done"

\* C2 (state part): an analysis endpoint answers 400 exactly when no
\* configure call and no bootstrap had succeeded when it answered, and then
\* it made no upstream call; the analyzer is set exactly when one has
\* succeeded; /api/health reports that same fact.
C2_Configured ==
    /\ (analyzer # None) <=> everConfigured
    /\ \A s \in Slots :
        /\ (Answered(s) /\ req[s].kind \in AnalysisKinds) =>
              /\ (req[s].status = 400) <=> ~req[s].cfgAtAnswer
              /\ (req[s].status = 400) => (req[s].calls = 0 /\ req[s].used = {})
        /\ (Answered(s) /\ req[s].kind = "health") =>
              (req[s].configured <=> req[s].cfgAtAnswer)

\* C2 (step part): no step unsets the analyzer, and a configure call that is
\* answered 400 leaves the analyzer as it was.
C2_Step ==
    /\ (analyzer # None) => (analyzer' # None)
    /\ \A s \in Slots :
        (/\ req[s].kind = "configure" /\ req[s].pc = "pending"
         /\ req'[s].pc = "done" /\ req'[s].status = 400) => (analyzer' = analyzer)

\* C2: for every sequence of HTTP calls, the six analysis endpoints answer
\* 400 without an upstream call if and only if nothing has configured the
\* server so far; a failed configure call leaves the analyzer as it was; once
\* set, the analyzer is never unset and /api/health reports configured.
C2_NotConfigured400 == [](C2_Configured) /\ [][C2_Step]_vars

\* C2 witness: a configure call failed after an earlier one had succeeded,
\* the server is still configured and an analysis request was served.
C2_Witness ==
    /\ analyzer # None
    /\ \E s, t \in Slots :
        /\ Answered(s) /\ req[s].kind = "configure" /\ req[s].status = 400
        /\ Answered(t) /\ req[t].kind \in AnalysisKinds
        /\ req[t].status = 200 /\ req[t].calls > 0

\* A request saw two configurations: its configured check, the analyzer it
\* bound or one of its upstream calls used different analyzers.
MixedObservation(s) ==
    \/ req[s].self # -1 /\ req[s].self # req[s].seen
    \/ \E u \in req[s].used : u # req[s].seen

\* C4 (as amended): a configure call never takes effect in the middle of an
\* in-flight analysis request: while a handler is between its configured
\* check and its answer the global analyzer is the one it checked, and every
\* step of one request uses one and the same analyzer.
C4_AtomicObservation ==
    \A s \in Slots :
        /\ ~MixedObservation(s)
        /\ req[s].pc \in {"bind", "call"} => analyzer = req[s].seen

\* C4 witness: a configure call arrived while an analysis request was
\* between its check and its answer; it replaced the analyzer only after
\* that request was answered from the old analyzer alone.
C4_Witness ==
    \E s \in Slots :
        /\ Answered(s) /\ req[s].kind \in AnalysisKinds /\ req[s].status = 200
        /\ req[s].overlap
        /\ req[s].used = {req[s].seen}
        /\ analyzer # req[s].seen

\* C4 (as stated): there is an interleaving in which one request uses the
\* old configuration for one step and the new one for a later step.
C4_MixedReachable == <>(\E s \in Slots : MixedObservation(s))


(***************************************************************************)
(* Claims about the inventory scan and the recommendations.                *)
(***************************************************************************)

ScanReturned == scan_pc \in {"returned", "recommended", "summarized"}

\* C1 (state part): the listings are issued in the fixed order; a step that
\* raises ends the scan at once with a normal return; the result has all
\* four keys; after a failure at step k exactly the first k listings were
\* issued and every category after k is empty.
C1_State ==
    /\ IsPrefixOf(issued, Listings)
    /\ DOMAIN unused = {Categories[c] : c \in 1..NCategories}
    /\ failedAt # 0 => ScanReturned
    /\ ScanReturned =>
          IF failedAt = 0 THEN issued = Listings
          ELSE /\ issued = SubSeq(Listings, 1, failedAt)
               /\ \A c \in (failedAt + 1)..NCategories : unused[Categories[c]] = <<>>

\* C1 (step part): no step drops an entry already collected, and once a step
\* has raised no listing is issued.
C1_Step ==
    /\ \A c \in 1..NCategories : IsPrefixOf(unused[Categories[c]], unused'[Categories[c]])
    /\ failedAt # 0 => issued' = issued

\* C1: identify_unused_resources scans EC2, EBS, elastic IPs, RDS in that
\* order; on a failure at step k it returns normally with all four keys, the
\* entries collected before the failure, no listing issued after k and every
\* later category empty.
C1_PartialScan == [](C1_State) /\ [][C1_Step]_vars

\* C1 witness: the scan failed while processing an EBS volume, after it had
\* collected instances and an earlier volume.
C1_Witness ==
    /\ scan_pc = "returned"
    /\ failedAt = 2
    /\ yielded = 2
    /\ Len(unused.ec2_instances) = 2
    /\ Len(unused.ebs_volumes) = 1
    /\ unused.elastic_ips = <<>>
    /\ issued = <<"describe_instances", "describe_volumes">>

RecCategories == <<"EC2", "EBS", "Network", "RDS">>

RecSeverities == <<"HIGH", "MEDIUM", "LOW", "HIGH">>

RecRank(cat) == CHOOSE c \in 1..NCategories : RecCategories[c] = cat

CandidateId(c, d) == IF c = 3 THEN d.ip ELSE d.id

Recommended == scan_pc \in {"recommended", "summarized"}

\* C5: exactly one recommendation per non-empty category and none for an
\* empty one, in the order EC2, EBS, Network, RDS with severities HIGH,
\* MEDIUM, LOW, HIGH, each listing one id per candidate in candidate order.
C5_OnePerCategory ==
    Recommended =>
      /\ \A c \in 1..NCategories :
            Cardinality({i \in DOMAIN recommendations :
                            recommendations[i].category = RecCategories[c]})
              = IF unused[Categories[c]] # <<>> THEN 1 ELSE 0
      /\ \A i \in DOMAIN recommendations :
            /\ recommendations[i].category \in {RecCategories[c] : c \in 1..NCategories}
            /\ LET c == RecRank(recommendations[i].category)
                   cands == unused[Categories[c]]
               IN  /\ recommendations[i].severity = RecSeverities[c]
                   /\ Len(recommendations[i].resources) = Len(cands)
                   /\ \A n \in 1..Len(cands) :
                         recommendations[i].resources[n] = CandidateId(c, cands[n])
      /\ \A i, j \in DOMAIN recommendations :
            i < j => RecRank(recommendations[i].category) < RecRank(recommendations[j].category)

\* C5 witness: three stopped instances and candidates in every category give
\* four recommendations, the LOW one before the last HIGH one.
C5_Witness ==
    /\ scan_pc = "recommended"
    /\ Len(recommendations) = 4
    /\ recommendations[1].category = "EC2"
    /\ recommendations[1].resources = <<"i-2", "i-1", "i-2">>
    /\ recommendations[3].severity = "LOW"
    /\ recommendations[4].severity = "HIGH"

NonEmptyCategories == {c \in 1..NCategories : unused[Categories[c]] # <<>>}

\* C6: potential_monthly_savings is the sum of the amounts of the '/month'
\* recommendations (EBS, Network) alone; the 'Varies ...' ones (EC2, RDS) add
\* nothing and make no error, and total_recommendations counts them all.
C6_NumericSavingsOnly ==
    scan_pc = "summarized" =>
      /\ ~optimization.raised
      /\ optimization.total_recommendations = Cardinality(NonEmptyCategories)
      /\ optimization.potential_monthly_savings =
            (IF unused.ebs_volumes # <<>>
             THEN EbsRate * SumSeq(Sizes(unused.ebs_volumes)) ELSE 0)
            + (IF unused.elastic_ips # <<>>
               THEN EipRate * Len(unused.elastic_ips) ELSE 0)
      /\ \A i \in DOMAIN recommendations :
            Contains(recommendations[i].potential_savings, PerMonth)
              <=> recommendations[i].category \in {"EBS", "Network"}

\* C6 witness: a summary over recommendations of both kinds:
\* 150 GB and 4 addresses, 12.00 + 14.40 USD, beside an EC2 and an RDS entry.
C6_Witness ==
    /\ scan_pc = "summarized"
    /\ optimization.total_recommendations = 4
    /\ optimization.potential_monthly_savings = 26400

TwelveDollars == <<"~", "$", "1", "2", ".", "0", "/", "m", "o", "n", "t", "h">>

FourteenForty == <<"~", "$", "1", "4", ".", "4", "/", "m", "o", "n", "t", "h">>

EightCents == <<"~", "$", "0", ".", "0", "8", "/", "m", "o", "n", "t", "h">>

\* C7: the EBS amount is the sum of the volume sizes x 0.08 and the
\* elastic-IP amount the number of addresses x 3.60, whole cents, each a
\* function of its own category's candidates only (100 GB + 50 GB print as
\* "~$12.0/month", 4 addresses as "~$14.4/month").
C7_SavingsRuleTable ==
    Recommended =>
      \A i \in DOMAIN recommendations :
        LET text == recommendations[i].potential_savings
        IN  /\ recommendations[i].category = "EBS" =>
                 /\ SavingsAmount(text) = 80 * SumSeq(Sizes(unused.ebs_volumes))
                 /\ SavingsAmount(text) % 10 = 0
                 /\ SumSeq(Sizes(unused.ebs_volumes)) = 150 => text = TwelveDollars
                 /\ SumSeq(Sizes(unused.ebs_volumes)) = 1 => text = EightCents
            /\ recommendations[i].category = "Network" =>
                 /\ SavingsAmount(text) = 3600 * Len(unused.elastic_ips)
                 /\ Len(unused.elastic_ips) = 4 => text = FourteenForty

\* C7 witness: volumes of 100 GB and 50 GB and four unassociated addresses.
C7_Witness ==
    /\ Recommended
    /\ Sizes(unused.ebs_volumes) = <<100, 50>>
    /\ Len(unused.elastic_ips) = 4
    /\ Len(recommendations) >= 2


(***************************************************************************)
(* Claims about the billing pipeline.                                      *)
(***************************************************************************)

\* A fetch that failed or returned no day row.
NoRecords(d) == ~d.has \/ d.rows = <<>>

\* C3: a billing call that fails or returns no records is never propagated:
\* get_cost_by_service gives an empty mapping, get_daily_costs an empty list,
\* get_monthly_summary a summary with total_cost = 0, avg_daily_cost = 0,
\* no top_services and no daily_trend, and the endpoints never answer 500.
C3_DegradeToEmpty ==
    /\ cost_status # 500
    /\ \A i \in DOMAIN fetched : ~fetched[i].exc
    /\ (cost_pc = "by-service" /\ NoRecords(fetched[1])) =>
          /\ cost_status = 200
          /\ service_costs = <<>>
    /\ (cost_pc = "daily" /\ NoRecords(fetched[1])) =>
          /\ cost_status = 200
          /\ daily_costs = <<>>
    /\ (cost_pc = "summary" /\ NoRecords(fetched[1]) /\ NoRecords(fetched[2])) =>
          /\ cost_status = 200
          /\ cost_body.total_cost = 0
          /\ cost_body.avg_daily_cost = 0
          /\ cost_body.top_services = <<>>
          /\ cost_body.daily_trend = <<>>

\* C3 witness: both billing calls of a summary failed although Cost Explorer
\* holds data; the summary is answered with zero totals.
C3_Witness ==
    /\ cost_pc = "summary"
    /\ billing # <<>>
    /\ ~fetched[1].has /\ ~fetched[2].has
    /\ cost_status = 200
    /\ cost_body.total_cost = 0

ServiceTotalsDone == cost_pc \in {"by-service", "summary"} /\ cost_status = 200

FetchedGroups == Flatten(fetched[1].rows)

\* C8: the totals of get_cost_by_service add up to the sum of all raw group
\* amounts, each service key appears exactly once, and its total is the sum
\* of exactly the amounts recorded under that same (case-sensitive) key.
C8_ConservationOfTotal ==
    ServiceTotalsDone =>
      LET groups == FetchedGroups
          raw == [k \in 1..Len(groups) |-> groups[k][2]]
      IN  /\ SumSeq(Values(service_costs)) = SumSeq(Amounts(groups))
          /\ cost_pc = "by-service" => cost_body.total = SumSeq(Amounts(groups))
          /\ {service_costs[i][1] : i \in 1..Len(service_costs)}
                = {groups[k][1] : k \in 1..Len(groups)}
          /\ \A i, j \in 1..Len(service_costs) :
                i # j => service_costs[i][1] # service_costs[j][1]
          /\ \A i \in 1..Len(service_costs) :
                service_costs[i][2]
                  = SumOver(raw, {k \in 1..Len(groups) : groups[k][1] = service_costs[i][1]})

\* C8 witness: S3 billed on two days and s3 on one: two keys, 2.01 and 1.005.
C8_Witness ==
    /\ cost_pc = "by-service"
    /\ Len(billing) = 2
    /\ \E i, j \in 1..Len(service_costs) :
        /\ service_costs[i] = <<"S3", 2010>>
        /\ service_costs[j] = <<"s3", 1005>>

FirstAppearance(groups, key) == CHOOSE k \in 1..Len(groups) :
    /\ groups[k][1] = key
    /\ \A m \in 1..(k - 1) : groups[m][1] # key

\* C9: the mapping of get_cost_by_service is ordered non-increasing by total,
\* equal totals in the order of first appearance in the response; the first
\* entry is a maximum, and top_services is the first (at most) 5 entries.
C9_SortedStable ==
    ServiceTotalsDone =>
      /\ \A i, j \in 1..Len(service_costs) :
            i < j =>
              /\ service_costs[i][2] >= service_costs[j][2]
              /\ service_costs[i][2] = service_costs[j][2] =>
                    FirstAppearance(FetchedGroups, service_costs[i][1])
                      < FirstAppearance(FetchedGroups, service_costs[j][1])
      /\ cost_pc = "summary" =>
            /\ Len(cost_body.top_services)
                  = (IF Len(service_costs) < 5 THEN Len(service_costs) ELSE 5)
            /\ \A i \in 1..Len(cost_body.top_services) :
                  cost_body.top_services[i] = service_costs[i]

\* C9 witness: six services, RDS and Lambda tied at 4.00 with Lambda seen
\* first; top_services keeps five of them.
C9_Witness ==
    /\ cost_pc = "summary"
    /\ Len(service_costs) = 6
    /\ Len(cost_body.top_services) = 5
    /\ service_costs[1] = <<"Lambda", 4000>>
    /\ service_costs[2] = <<"RDS", 4000>>


\* The summary endpoint answered 200.
SummaryDone == cost_pc = "summary" /\ cost_status = 200

Abs(x) == IF x < 0 THEN -x ELSE x

\* x / den, to the nearest cent (amounts in mills)
NearestCent(avg, x, den) == avg % 10 = 0 /\ Abs(den * avg - x) <= 5 * den

\* C12: in get_monthly_summary avg_daily_cost is the total of the service
\* totals divided by the fixed divisor 30 (reported to the cent) whenever
\* the daily list is non-empty, however many day rows it holds, and 0
\* whenever it is empty; as the daily list comes from a second fetch, the
\* average is 0 when that fetch returned nothing, whatever the first gave.
C12_AvgDailyFixedDivisor ==
    SummaryDone =>
      LET total_current == SumSeq(Values(service_costs))
          avg == cost_body.avg_daily_cost
      IN  /\ daily_costs # <<>> => NearestCent(avg, total_current, 30)
          /\ daily_costs = <<>> => avg = 0
          /\ cost_body.daily_trend = <<>> <=> daily_costs = <<>>
          /\ (~fetched[2].has \/ fetched[2].rows = <<>>) => avg = 0

\* Two day rows came back, and the average is the 30th of a total that is
\* not the 30-fold of anything the day count would give.
C12_Witness ==
    /\ SummaryDone
    /\ Len(daily_costs) = 2
    /\ SumSeq(Values(service_costs)) = 11500
    /\ cost_body.avg_daily_cost = 380

\* The service totals are non-zero while the second fetch failed.
C12_SecondFetchEmpty ==
    /\ SummaryDone
    /\ fetched[1].has /\ ~fetched[2].has
    /\ cost_body.total_cost = 11500
    /\ cost_body.avg_daily_cost = 0

(***************************************************************************)
(* Claims about the forecast.                                              *)
(***************************************************************************)

\* The forecast fetch yielded no per-day value: it failed, or it holds no row.
NoForecastValues == ~forecast_data.has \/ forecast_data.rows = <<>>

\* C10: whenever the forecast fetch yields no per-day values (the call
\* failed, or the response holds no forecast rows) get_forecast_summary
\* returns the empty result; a summary is returned only when forecast data
\* was returned.
C10_NoDataIsEmpty ==
    fc_pc # "idle" =>
      /\ (NoForecastValues /\ forecast # ZeroDivision) => forecast = EmptyResult
      /\ forecast.kind = "summary" => ~NoForecastValues

\* GET /api/forecast has answered.
ForecastAnswered == fc_pc = "forecast"

\* C13: with a horizon of 0 days get_forecast_summary raises the division
\* fault whenever the upstream call returned a forecast result, and
\* /api/forecast?days=0 then answers 500; when the upstream call returned no
\* forecast result, horizon 0 gives the empty result and no fault; for
\* every horizon above 0 the division never faults.
C13_ZeroHorizonFaults ==
    ForecastAnswered =>
      /\ (days_forward = 0 /\ forecast_data.has) =>
            (forecast.kind = "ZeroDivisionError" /\ fc_status = 500)
      /\ (days_forward = 0 /\ ~forecast_data.has) =>
            (forecast.kind = "empty" /\ fc_status = 200)
      /\ days_forward > 0 =>
            (forecast.kind # "ZeroDivisionError" /\ fc_status = 200)

\* Horizon 0 met a forecast result with rows and was answered 500.
C13_Witness ==
    /\ ForecastAnswered
    /\ days_forward = 0
    /\ forecast_data.has /\ forecast_data.rows # <<>>
    /\ forecast = ZeroDivision
    /\ fc_status = 500

(***************************************************************************)
(* Claims about repeated read-only calls.                                  *)
(***************************************************************************)

\* C11: every read-only endpoint is idempotent and leaves the server state
\* unchanged: with the upstream data unchanged, a call of an endpoint
\* answers exactly what the latest earlier call of that endpoint (same
\* inputs) answered, whatever read-only calls were served in between, and
\* no step of a read-only call changes the process-wide analyzer.
C11_ReadOnlyIdempotent ==
    [][/\ analyzer' = analyzer
       /\ made' = made
       /\ upstream' = upstream
       /\ \A e \in ReadOnlyKinds : last[e].status # 0 => last'[e] = last[e]]_vars

\* The summary is served a second time, after a by-service and a
\* recommendations call, and is about to answer what it answered before:
\* a non-zero total and two priced recommendations.
C11_Witness ==
    /\ running = "summary" /\ Served("summary")
    /\ last["summary"].status = 200
    /\ last["by-service"].status = 200
    /\ last["recommendations"].status = 200
    /\ Answer("summary") = last["summary"]
    /\ Answer("summary").body.current_month.total_cost = 5000
    /\ Answer("summary").body.optimization.potential_monthly_savings = 11680

=============================================================================
